---- MODULE Spec2Model ----
(***************************************************************************)
(* Damped-EM fitting of per-class Gaussian mixtures                        *)
(* (multilabel_graphcut_annotation/gmm.py: fit_model and the generator     *)
(* solve).                                                                 *)
(*                                                                         *)
(* Numbers.  The program computes in IEEE floating point.  Here every      *)
(* quantity is a fixed-point integer:                                      *)
(*   - feature values and means: whole colour units;                       *)
(*   - covariances: whole squared colour units;                            *)
(*   - negative log densities (nll): multiples of 1/NS;                    *)
(*   - responsibilities (z) and mixing weights: multiples of 1/ZS.         *)
(* Every division rounds to the nearest multiple (Round).  A claim that    *)
(* the program states "within floating tolerance" is stated here within    *)
(* the rounding of this resolution.  The floating-point effects that the  *)
(* control flow depends on are kept:                                       *)
(*   - exp(-nll) is 0.0 once nll exceeds ExpMin (underflow), and           *)
(*     0.0 / 0.0 is NaN;                                                   *)
(*   - a responsibility that is positive in float64 stays positive: the    *)
(*     rounding never turns it into 0 (it is at least 1/ZS);               *)
(*   - the sign of a computed eigenvalue that is 0 up to rounding is       *)
(*     decided by the rounding: both results of the test are possible.     *)
(***************************************************************************)
EXTENDS Integers, Sequences, FiniteSets, TLC

(***************************************************************************)
(* Bounds of the model                                                     *)
(***************************************************************************)
\* number of distinct candidate sample points per feature dimension
NPts == 4
\* largest class count n_class
MaxClass == 2
\* largest component count a caller may want
MaxWanted == 9

(***************************************************************************)
(* Program constants                                                       *)
(***************************************************************************)
\* variant: the hardcoded count is 9, beyond the palette
NineByDefault == 8 + 1
\* gmm.py:35  n_gmm = 4  # hardcode :)
DefaultNGmm == 4
\* gmm.py:43  if n_gmm <= 8
PaletteMax == 8
\* gmm.py:64  if len(bgrs) <= 2
MinLabelled == 2
\* variant: 9 cycles
NineCycles == 10 - 1
\* gmm.py:74  for _ in range(10)
NumCycles == 10
\* gmm.py:54  128 * 128 * np.identity(...)
IniStd == 128
\* gmm.py:170-171  0.8 * old + 0.2 * new, as 8/10 and 2/10
DampOld == 8
DampNew == 2
DampDen == 10

\* gmm.py:46-47  the eight preset centres
Palette ==
    << <<0, 0, 0>>, <<255, 0, 0>>, <<0, 255, 0>>, <<0, 0, 255>>,
       <<255, 255, 255>>, <<0, 255, 255>>, <<255, 0, 255>>, <<255, 255, 0>> >>

(***************************************************************************)
(* Resolution of the fixed-point arithmetic                                *)
(***************************************************************************)
\* nll is kept in multiples of 1/NS
NS == 8
\* responsibilities are kept in multiples of 1/ZS
ZS == 1000
\* exp(-x) is kept in multiples of 1/ES
ES == 10000
\* np.exp(-x) is 0.0 in float64 for x above 745 (gmm.py:151)
ExpMin == 745
\* the value of 0.0 / 0.0 (gmm.py:152); no other quantity takes this value
NaN == 0 - 2^30

\* a / b rounded to the nearest integer; 0 when b is not positive (the
\* callers test the sign of b themselves)
Round(a, b) == IF b > 0 THEN (2 * a + b) \div (2 * b) ELSE 0

\* a / b for a > 0, b > 0, rounded to the nearest positive integer
RoundPos(a, b) == IF Round(a, b) < 1 THEN 1 ELSE Round(a, b)

RECURSIVE Tab(_, _)
\* the array <<F(1), ..., F(n)>>
Tab(F(_), n) == IF n = 0 THEN <<>> ELSE Append(Tab(F, n - 1), F(n))

RECURSIVE Sum(_, _)
\* F(1) + ... + F(n)
Sum(F(_), n) == IF n = 0 THEN 0 ELSE F(n) + Sum(F, n - 1)

\* ndarray.sum of a row: NaN as soon as one entry is NaN
NSum(row) ==
    IF \E k \in 1..Len(row) : row[k] = NaN THEN NaN
    ELSE Sum(LAMBDA k : row[k], Len(row))

RECURSIVE MinN(_, _)
\* the least of f[1..n], n >= 1
MinN(f, n) ==
    IF n = 1 THEN f[1]
    ELSE LET m == MinN(f, n - 1) IN IF f[n] < m THEN f[n] ELSE m

(***************************************************************************)
(* Gaussian log density (scipy.stats.multivariate_normal.logpdf), by the   *)
(* square-root-free Cholesky factorisation A = L D L^T: d[k] is the k-th   *)
(* pivot and u[k][j] = L[k][j] * d[j] for j < k.                           *)
(***************************************************************************)
RECURSIVE RowU(_, _, _, _)
\* u[k][1..j], given the factorisation p of the rows above k
RowU(A, k, p, j) ==
    IF j = 0 THEN <<>>
    ELSE LET r == RowU(A, k, p, j - 1)
         IN  Append(r, A[k][j] - Sum(LAMBDA m : Round(r[m] * p.u[j][m], p.d[m]),
                                     j - 1))

RECURSIVE Rows(_, _)
\* the factorisation of the leading k by k block of A
Rows(A, k) ==
    IF k = 0 THEN [u |-> <<>>, d |-> <<>>]
    ELSE LET p == Rows(A, k - 1)
             row == RowU(A, k, p, k - 1)
             dk == A[k][k] - Sum(LAMBDA m : Round(row[m] * row[m], p.d[m]), k - 1)
         IN  [u |-> Append(p.u, row), d |-> Append(p.d, dk)]

Fact(A) == Rows(A, Len(A))

\* every pivot of the factorisation F exceeds t
PivotsAbove(F, t) == \A k \in 1..Len(F.d) : F.d[k] > t

\* A (symmetric) has only strictly positive eigenvalues
PosDef(A) == PivotsAbove(Fact(A), 0)

RECURSIVE Forward(_, _, _)
\* forward substitution: the first k entries of y = L^-1 x
Forward(F, x, k) ==
    IF k = 0 THEN <<>>
    ELSE LET y == Forward(F, x, k - 1)
         IN  Append(y, x[k] - Sum(LAMBDA j : Round(F.u[k][j] * y[j], F.d[j]),
                                  k - 1))

\* NS * x^T A^-1 x, F the factorisation of A
Maha(F, x) ==
    LET y == Forward(F, x, Len(x))
    IN  Sum(LAMBDA k : Round(y[k] * y[k] * NS, F.d[k]), Len(x))

RECURSIVE Log2Floor(_)
Log2Floor(x) == IF x < 2 THEN 0 ELSE 1 + Log2Floor(x \div 2)

\* NS * ln x for an integer x >= 1 (ln 2 = 0.693, linear between powers of 2)
Ln(x) ==
    LET k == Log2Floor(x)
        p == 2^k
    IN  Round(k * NS * 693, 1000) + Round((x - p) * NS * 693, p * 1000)

\* NS * ln det A
LnDet(F) == Sum(LAMBDA k : Ln(F.d[k]), Len(F.d))

\* NS * (- logpdf(x; mean, cov)) = NS * (n ln 2pi + ln det cov + maha) / 2,
\* F the factorisation of cov (ln 2pi = 1.838)
Nll(x, mean, F) ==
    LET n == Len(x)
        dev == Tab(LAMBDA k : x[k] - mean[k], n)
    IN  Round(Round(n * NS * 1838, 1000) + LnDet(F) + Maha(F, dev), 2)

\* ES * e^-q for whole q = 1..9
ExpInt == <<3679, 1353, 498, 183, 67, 25, 9, 3, 1>>
\* ES * e^-(r/NS) for r = 0..NS-1
ExpFrac == <<10000, 8825, 7788, 6873, 6065, 5353, 4724, 4169>>

\* ES * e^-(d/NS), d >= 0 in multiples of 1/NS; never less than 1
ExpNeg(d) ==
    LET q == d \div NS
        r == d % NS
    IN  IF q = 0 THEN ExpFrac[r + 1]
        ELSE IF q > Len(ExpInt) THEN 1
        ELSE RoundPos(ExpInt[q] * ExpFrac[r + 1], ES)

(***************************************************************************)
(* solve: one E-step (gmm.py:144-153)                                      *)
(***************************************************************************)
\* np.any(np.isnan(.)) of a matrix given as a tuple of rows
HasNaN(m) == \E r \in 1..Len(m) : \E c \in 1..Len(m[r]) : m[r][c] = NaN

\* gmm.py:144-149  nll[i_gmm, :] = - logpdf(rgbs, mean, cov)
NllMatrix(rgbs, n_gmm, gmm_center, gmm_cov) ==
    Tab(LAMBDA g :
          LET F == Fact(gmm_cov[g])
          IN  Tab(LAMBDA s : Nll(rgbs[s], gmm_center[g], F), Len(rgbs)),
        n_gmm)

\* gmm.py:151  np.exp(- nll) for one sample, up to the factor e^lo common to
\* its column: 0 where float64 underflows, else ES * e^-(nll - lo)
ExpColumn(col) ==
    LET lo == MinN(col, Len(col))
    IN  Tab(LAMBDA g : IF col[g] > ExpMin * NS THEN 0 ELSE ExpNeg(col[g] - lo),
            Len(col))

\* gmm.py:152  z /= z.sum(axis=0) for one sample; a column of zeros gives
\* 0/0 = NaN
NormColumn(e) ==
    LET total == Sum(LAMBDA g : e[g], Len(e))
    IN  Tab(LAMBDA g : IF total = 0 THEN NaN
                       ELSE IF e[g] = 0 THEN 0
                       ELSE RoundPos(ZS * e[g], total),
            Len(e))

\* gmm.py:151-152  the responsibilities, component by sample
Resp(nll, n_gmm, n_data) ==
    LET cols == Tab(LAMBDA s :
                      NormColumn(ExpColumn(Tab(LAMBDA g : nll[g][s], n_gmm))),
                    n_data)
    IN  Tab(LAMBDA g : Tab(LAMBDA s : cols[s][g], n_data), n_gmm)

\* logpdf rejects a covariance that is not positive definite
\* (gmm.py:145-149)
CovsUsable(gmm_cov) == \A g \in 1..Len(gmm_cov) : PosDef(gmm_cov[g])

\* gmm.py:144-153  the E-step snapshot (nll.copy(), z.copy())
EStep(rgbs, n_gmm, gmm_center, gmm_cov) ==
    LET nll == NllMatrix(rgbs, n_gmm, gmm_center, gmm_cov)
    IN  [phase |-> "E", nll |-> nll, z |-> Resp(nll, n_gmm, Len(rgbs))]

(***************************************************************************)
(* solve: one M-step (gmm.py:154-182)                                      *)
(***************************************************************************)
\* the reciprocal of the threshold of gmm.py:163  z_sum[i_gmm] < 1e-7
OverfitInv == 10000000

\* variant: the Overfit test never fires
NeverTooSmall(z_sum) == FALSE

\* gmm.py:163  z_sum[i_gmm] < 1e-7 (False when z_sum is NaN); with
\* responsibilities in multiples of 1/ZS this is z_sum = 0
TooSmall(z_sum) == z_sum # NaN /\ z_sum * (OverfitInv \div ZS) < 1

\* gmm.py:165  mean = (rgbs * z[i_gmm, :, None]).sum(axis=0) / z_sum[i_gmm]
WMean(rgbs, zrow, z_sum) ==
    Tab(LAMBDA k :
          IF z_sum = NaN THEN NaN
          ELSE Round(Sum(LAMBDA s : rgbs[s][k] * zrow[s], Len(rgbs)), z_sum),
        Len(rgbs[1]))

\* gmm.py:166-167  dev = rgbs - mean; cov = dev.T @ (dev * z) / z_sum
WCov(rgbs, zrow, z_sum, mean) ==
    Tab(LAMBDA j : Tab(LAMBDA k :
          IF z_sum = NaN THEN NaN
          ELSE Round(Sum(LAMBDA s : (rgbs[s][j] - mean[j])
                                      * (rgbs[s][k] - mean[k]) * zrow[s],
                         Len(rgbs)), z_sum),
        Len(rgbs[1])), Len(rgbs[1]))

\* variant: no damping, the computed value replaces the old one
Undamped(old, new) == new

\* variant: the damping weights are exchanged
DampSwapped(old, new) ==
    IF old = NaN \/ new = NaN THEN NaN
    ELSE Round(DampNew * old + DampOld * new, DampDen)

\* gmm.py:170-171  0.8 * old + 0.2 * new
Damp(old, new) ==
    IF old = NaN \/ new = NaN THEN NaN
    ELSE Round(DampOld * old + DampNew * new, DampDen)

DampVec(old, new) == Tab(LAMBDA k : Damp(old[k], new[k]), Len(old))

DampMat(old, new) ==
    Tab(LAMBDA j : Tab(LAMBDA k : Damp(old[j][k], new[j][k]), Len(old)),
        Len(old))

\* a pivot of at most EigTol squared colour units is 0 up to rounding
EigTol == 2

\* gmm.py:172-174  the possible results of the check of cov:
\* np.linalg.eigvals rejects a non-finite matrix (LinAlgError); a computed
\* eigenvalue <= 0 raises RuntimeError("Numerical Error"); when the least
\* eigenvalue is 0 up to rounding, the rounding decides
EigCheck(cov) ==
    IF HasNaN(cov) THEN {"LinAlgError"}
    ELSE IF PivotsAbove(Fact(cov), EigTol) THEN {"ok"}
    ELSE {"ok", "Numerical Error"}

\* gmm.py:165-171  the update of component i_gmm
Update(rgbs, zrow, center, cov) ==
    LET z_sum == NSum(zrow)
        mean == WMean(rgbs, zrow, z_sum)
        cov1 == WCov(rgbs, zrow, z_sum, mean)
    IN  [center |-> DampVec(center, mean), cov |-> DampMat(cov, cov1),
         computed |-> cov1]

RECURSIVE MLoop(_, _, _, _, _, _)
\* gmm.py:162-182  for i_gmm in range(n_gmm): ... in place, then the check of
\* the cov computed last, then the yield
MLoop(i_gmm, rgbs, z, gmm_center, gmm_cov, cov) ==
    IF i_gmm > Len(gmm_center)
    THEN [excs |-> EigCheck(cov), gmm_center |-> gmm_center, gmm_cov |-> gmm_cov]
    ELSE IF TooSmall(NSum(z[i_gmm]))
    THEN [excs |-> {"Overfit"}, gmm_center |-> gmm_center, gmm_cov |-> gmm_cov]
    ELSE LET up == Update(rgbs, z[i_gmm], gmm_center[i_gmm], gmm_cov[i_gmm])
         IN  MLoop(i_gmm + 1, rgbs, z,
                   [gmm_center EXCEPT ![i_gmm] = up.center],
                   [gmm_cov EXCEPT ![i_gmm] = up.cov],
                   up.computed)

\* gmm.py:154-182  the M-step of the suspended solver
MStep(rgbs, z, gmm_center, gmm_cov) ==
    MLoop(1, rgbs, z, gmm_center, gmm_cov, <<>>)

(***************************************************************************)
(* solve as a generator object                                             *)
(***************************************************************************)
\* gmm.py:112-117  calling solve(...) creates the generator; no line of the
\* body has run
Solve(rgbs, n_gmm, gmm_center_ini, gmm_cov_ini) ==
    [at |-> "start", rgbs |-> rgbs, n_gmm |-> n_gmm,
     gmm_center |-> gmm_center_ini, gmm_cov |-> gmm_cov_ini, z |-> <<>>]

\* gmm.py:134-139  the shape assertions
ShapesAgree(s) ==
    LET n == Len(s.rgbs[1])
    IN  /\ s.n_gmm = Len(s.gmm_center)
        /\ s.n_gmm = Len(s.gmm_cov)
        /\ \A g \in 1..s.n_gmm :
              /\ n = Len(s.gmm_center[g])
              /\ n = Len(s.gmm_cov[g])
              /\ \A r \in 1..Len(s.gmm_cov[g]) : n = Len(s.gmm_cov[g][r])

\* an exception leaves the generator: it is closed
Raised(s, e) == [solver |-> [s EXCEPT !.at = "closed"], exc |-> e, snap |-> <<>>]

\* the generator runs from the top of the while loop to the yield of
\* gmm.py:153
RunE(s) ==
    IF ~CovsUsable(s.gmm_cov) THEN {Raised(s, "ValueError")}
    ELSE LET e == EStep(s.rgbs, s.n_gmm, s.gmm_center, s.gmm_cov)
         IN  {[solver |-> [s EXCEPT !.at = "E", !.z = e.z], exc |-> "none",
               snap |-> e]}

\* the generator resumes after the yield of gmm.py:153 and runs to the yield
\* of gmm.py:182, or raises
RunM(s) ==
    LET m == MStep(s.rgbs, s.z, s.gmm_center, s.gmm_cov)
    IN  {IF e = "ok"
         THEN [solver |-> [s EXCEPT !.at = "M", !.gmm_center = m.gmm_center,
                                    !.gmm_cov = m.gmm_cov],
               exc |-> "none",
               snap |-> [phase |-> "M", gmm_center |-> m.gmm_center,
                         gmm_cov |-> m.gmm_cov]]
         ELSE Raised(s, e) : e \in m.excs}

\* next(solver): the possible results
SolverNext(s) ==
    CASE s.at = "start" ->
           IF ShapesAgree(s) THEN RunE(s) ELSE {Raised(s, "AssertionError")}
      [] s.at = "E" -> RunM(s)
      [] s.at = "M" -> RunE(s)
      [] OTHER -> {[solver |-> s, exc |-> "StopIteration", snap |-> <<>>]}

(***************************************************************************)
(* fit_model                                                               *)
(***************************************************************************)
VARIABLES
    vs, ls, n_class, n_dim, model,   \* the arguments; n_dim is vs.shape[-1]
    wanted,        \* the component count the caller would like (no parameter
                   \* of fit_model receives it)
    pc,            \* position in fit_model
    n_gmm, center_ini, cov_ini,
    label_means, label_covars, mixs,
    i, bgrs, solver, cycle, gmm_centers, gmm_covs, z,
    drawn,         \* the snapshots drawn from the current solver, in order
    outcome        \* "running", "Model" (label_means, label_covars, mixs
                   \* returned), "None", or the name of the exception raised

vars == <<vs, ls, n_class, n_dim, model, wanted, pc, n_gmm, center_ini,
          cov_ini, label_means, label_covars, mixs, i, bgrs, solver, cycle,
          gmm_centers, gmm_covs, z, drawn, outcome>>

\* Optional[Model]: no Model given
None == <<>>

\* candidate feature values of one-dimensional samples
Vals1 == <<0, 10, 20, 128, 255, 64, 192, 224>>

\* the k-th candidate sample of dimension d
Point(d, k) == IF d = 3 THEN Palette[k] ELSE <<Vals1[k]>>

\* the sample selections of one class: strictly increasing index lists
IncSeqs ==
    UNION {{q \in [1..k -> 1..NPts] : \A a \in 1..(k - 1) : q[a] < q[a + 1]} :
             k \in 0..NPts}

RECURSIVE VsOf(_, _, _)
\* the samples of classes 0..c-1, class after class
VsOf(d, data, c) ==
    IF c = 0 THEN <<>>
    ELSE VsOf(d, data, c - 1) \o [a \in 1..Len(data[c]) |-> Point(d, data[c][a])]

RECURSIVE LsOf(_, _)
LsOf(data, c) ==
    IF c = 0 THEN <<>>
    ELSE LsOf(data, c - 1) \o [a \in 1..Len(data[c]) |-> c - 1]

\* v times the identity (gmm.py:54)
Iso(d, v) == [j \in 1..d |-> [k \in 1..d |-> IF j = k THEN v ELSE 0]]

\* a Model of nc classes: component g of class c has mean base[g] +
\* shift * c in every coordinate, covariance var * identity
Prior(nc, d, base, shift, var) ==
    << [c \in 1..nc |-> [g \in 1..Len(base) |->
            [k \in 1..d |-> base[g] + shift * (c - 1)]]],
       [c \in 1..nc |-> [g \in 1..Len(base) |-> Iso(d, var)]],
       [c \in 1..nc |-> [g \in 1..Len(base) |-> ZS * g]] >>

\* the warm-start Models tried
Priors(nc, d) ==
    { Prior(nc, d, <<0, 255>>, 20, 4096),
      Prior(nc, d, <<0, 255>>, 5, IF d = 1 THEN 9 ELSE 256),
      Prior(nc, d, <<0, 32, 64, 96, 128, 160, 192, 224, 256>>, 8, 1024) }

\* the locals of fit_model before its first line
Entry ==
    /\ pc = "interpret"
    /\ n_gmm = DefaultNGmm
    /\ center_ini = <<>>
    /\ cov_ini = <<>>
    /\ label_means = <<>>
    /\ label_covars = <<>>
    /\ mixs = <<>>
    /\ i = 0
    /\ bgrs = <<>>
    /\ solver = <<>>
    /\ cycle = 0
    /\ gmm_centers = <<>>
    /\ gmm_covs = <<>>
    /\ z = <<>>
    /\ drawn = <<>>
    /\ outcome = "running"

\* the arguments: samples of dimension d for nc classes, with or without a
\* warm-start Model
Args(d, nc) ==
    \E data \in [1..nc -> IncSeqs] :
       /\ n_dim = d
       /\ n_class = nc
       /\ vs = VsOf(d, data, nc)
       /\ ls = LsOf(data, nc)

Init ==
    /\ \E d \in {1, 3}, nc \in 1..MaxClass :
          Args(d, nc) /\ model \in {None} \cup Priors(nc, d)
    /\ wanted = DefaultNGmm
    /\ Entry

\* calls without a warm-start Model, by callers that want the default
\* count, the largest the palette serves, or MaxWanted components
InitWanted ==
    /\ \E nc \in 1..MaxClass : Args(3, nc) /\ model = None
    /\ wanted \in {DefaultNGmm, PaletteMax, MaxWanted}
    /\ Entry

\* gmm.py:44-50  the first n palette entries, for every class
PaletteCenters(nc, n) == [c \in 1..nc |-> SubSeq(Palette, 1, n)]

\* gmm.py:53-56
DefaultCovs(nc, n, d) == [c \in 1..nc |-> [g \in 1..n |-> Iso(d, IniStd * IniStd)]]

\* variant: the component count of the Model is ignored
DefaultCount(m) == DefaultNGmm

\* gmm.py:41  n_gmm = center_ini.shape[1]
ModelNGmm(m) == Len(m[1][1])

\* gmm.py:35-57  Interpret input params
Interpret ==
    /\ pc = "interpret"
    /\ IF model # None
       THEN /\ center_ini' = model[1]
            /\ cov_ini' = model[2]
            /\ n_gmm' = ModelNGmm(model)
            /\ pc' = "loop"
            /\ outcome' = outcome
       ELSE IF DefaultNGmm <= PaletteMax
       THEN /\ center_ini' = PaletteCenters(n_class, DefaultNGmm)
            /\ cov_ini' = DefaultCovs(n_class, DefaultNGmm, n_dim)
            /\ n_gmm' = DefaultNGmm
            /\ pc' = "loop"
            /\ outcome' = outcome
       ELSE /\ outcome' = "NotImplementedError"
            /\ pc' = "raised"
            /\ UNCHANGED <<center_ini, cov_ini, n_gmm>>
    /\ UNCHANGED <<vs, ls, n_class, n_dim, model, wanted, label_means,
                   label_covars, mixs, i, bgrs, solver, cycle, gmm_centers,
                   gmm_covs, z, drawn>>

RECURSIVE Masked(_, _, _)
\* gmm.py:63  vs[ls == i]
Masked(v, l, c) ==
    IF v = <<>> THEN <<>>
    ELSE (IF Head(l) = c THEN <<Head(v)>> ELSE <<>>)
           \o Masked(Tail(v), Tail(l), c)

\* variant: a class of 3 samples is rejected too
TooFewAtThree(b) == Len(b) <= MinLabelled + 1

\* gmm.py:64  len(bgrs) <= 2
TooFew(b) == Len(b) <= MinLabelled

\* gmm.py:62-66  a class with too few labelled samples: return None
NeedMoreLabel ==
    /\ pc = "loop"
    /\ i < n_class
    /\ TooFew(Masked(vs, ls, i))
    /\ bgrs' = Masked(vs, ls, i)
    /\ outcome' = "None"
    /\ pc' = "returned"
    /\ UNCHANGED <<vs, ls, n_class, n_dim, model, wanted, n_gmm, center_ini,
                   cov_ini, label_means, label_covars, mixs, i, solver, cycle,
                   gmm_centers, gmm_covs, z, drawn>>

\* gmm.py:62-74  the solver of class i is created
StartSolver ==
    /\ pc = "loop"
    /\ i < n_class
    /\ ~TooFew(Masked(vs, ls, i))
    /\ bgrs' = Masked(vs, ls, i)
    /\ solver' = Solve(Masked(vs, ls, i), n_gmm, center_ini[i + 1], cov_ini[i + 1])
    /\ drawn' = <<>>
    /\ cycle' = 0
    /\ pc' = "cycleE"
    /\ UNCHANGED <<vs, ls, n_class, n_dim, model, wanted, n_gmm, center_ini,
                   cov_ini, label_means, label_covars, mixs, i, gmm_centers,
                   gmm_covs, z, outcome>>

\* gmm.py:75  _, _ = next(solver)
DrawE ==
    /\ pc = "cycleE"
    /\ \E r \in SolverNext(solver) :
           /\ r.exc = "none"
           /\ solver' = r.solver
           /\ drawn' = Append(drawn, r.snap)
    /\ pc' = "cycleM"
    /\ UNCHANGED <<vs, ls, n_class, n_dim, model, wanted, n_gmm, center_ini,
                   cov_ini, label_means, label_covars, mixs, i, bgrs, cycle,
                   gmm_centers, gmm_covs, z, outcome>>

\* gmm.py:76  gmm_centers, gmm_covs = next(solver)
DrawM ==
    /\ pc = "cycleM"
    /\ \E r \in SolverNext(solver) :
           /\ r.exc = "none"
           /\ solver' = r.solver
           /\ drawn' = Append(drawn, r.snap)
           /\ gmm_centers' = r.snap.gmm_center
           /\ gmm_covs' = r.snap.gmm_cov
    /\ cycle' = cycle + 1
    /\ pc' = IF cycle + 1 < NumCycles THEN "cycleE" ELSE "finalE"
    /\ UNCHANGED <<vs, ls, n_class, n_dim, model, wanted, n_gmm, center_ini,
                   cov_ini, label_means, label_covars, mixs, i, bgrs, z,
                   outcome>>

\* gmm.py:75-77  next(solver) raises: the exception leaves fit_model
DrawRaises ==
    /\ pc \in {"cycleE", "cycleM", "finalE"}
    /\ \E r \in SolverNext(solver) :
           /\ r.exc # "none"
           /\ solver' = r.solver
           /\ outcome' = r.exc
    /\ pc' = "raised"
    /\ UNCHANGED <<vs, ls, n_class, n_dim, model, wanted, n_gmm, center_ini,
                   cov_ini, label_means, label_covars, mixs, i, bgrs, cycle,
                   gmm_centers, gmm_covs, z, drawn>>

\* gmm.py:77  _, z = next(solver)
FinalE ==
    /\ pc = "finalE"
    /\ \E r \in SolverNext(solver) :
           /\ r.exc = "none"
           /\ solver' = r.solver
           /\ drawn' = Append(drawn, r.snap)
           /\ z' = r.snap.z
    /\ pc' = "store"
    /\ UNCHANGED <<vs, ls, n_class, n_dim, model, wanted, n_gmm, center_ini,
                   cov_ini, label_means, label_covars, mixs, i, bgrs, cycle,
                   gmm_centers, gmm_covs, outcome>>

\* gmm.py:80  z.sum(axis=1)
RowSums(m) == Tab(LAMBDA g : NSum(m[g]), Len(m))

\* gmm.py:78-80, and the step of the loop over the classes
Store ==
    /\ pc = "store"
    /\ label_means' = Append(label_means, gmm_centers)
    /\ label_covars' = Append(label_covars, gmm_covs)
    /\ mixs' = Append(mixs, RowSums(z))
    /\ i' = i + 1
    /\ pc' = "loop"
    /\ UNCHANGED <<vs, ls, n_class, n_dim, model, wanted, n_gmm, center_ini,
                   cov_ini, bgrs, solver, cycle, gmm_centers, gmm_covs, z,
                   drawn, outcome>>

\* gmm.py:81  return the Model
ReturnModel ==
    /\ pc = "loop"
    /\ i = n_class
    /\ outcome' = "Model"
    /\ pc' = "returned"
    /\ UNCHANGED <<vs, ls, n_class, n_dim, model, wanted, n_gmm, center_ini,
                   cov_ini, label_means, label_covars, mixs, i, bgrs, solver,
                   cycle, gmm_centers, gmm_covs, z, drawn>>

Next ==
    \/ Interpret
    \/ NeedMoreLabel
    \/ StartSolver
    \/ DrawE
    \/ DrawM
    \/ DrawRaises
    \/ FinalE
    \/ Store
    \/ ReturnModel

Spec == Init /\ [][Next]_vars

SpecWanted == InitWanted /\ [][Next]_vars

(***************************************************************************)
(* Properties                                                              *)
(***************************************************************************)
\* the samples labelled c
Labelled(c) == Masked(vs, ls, c)

\* fit_model has returned or raised
Finished == pc \in {"returned", "raised"}

\* the shapes of the arguments agree (the precondition of solve): the
\* palette and a three-dimensional feature space, or a Model of the samples'
\* dimension
ShapeValid == model # None \/ n_dim = 3

\* the parameters the current solver was created with
IniCenter == center_ini[i + 1]
IniCov == cov_ini[i + 1]

\* the parameters in force before snapshot k of the current solver was
\* computed: those of the last M-step snapshot before k, or the initial ones
ParamsBefore(k) ==
    IF k <= 2 THEN [gmm_center |-> IniCenter, gmm_cov |-> IniCov]
    ELSE LET m == drawn[IF k % 2 = 1 THEN k - 1 ELSE k - 2]
         IN  [gmm_center |-> m.gmm_center, gmm_cov |-> m.gmm_cov]

\* snapshot k is an E-step snapshot for odd k, an M-step snapshot for even k
Alternates ==
    \A k \in 1..Len(drawn) : drawn[k].phase = IF k % 2 = 1 THEN "E" ELSE "M"

\* C1 as claimed: whenever some class has fewer than 3 labelled samples,
\* fit_model ends by returning None, whatever the other classes hold and
\* wherever the class stands in the class order (stated for arguments of
\* agreeing shapes).
C1_NoneWheneverAClassIsShort ==
    (Finished /\ ShapeValid
        /\ \E c \in 0..(n_class - 1) : Len(Labelled(c)) < 3)
    => outcome = "None"

\* C2: when the class loop reaches a class with 3 or more labelled samples
\* (3 included) the solver of that class is created on exactly these
\* samples and nothing is returned or raised; when it reaches a class with
\* 2, 1 or 0 labelled samples no solver is created and fit_model returns
\* None.
C2_SampleCheckBoundary ==
    [][(pc = "loop" /\ i < n_class) =>
         /\ Len(Labelled(i)) >= 3 =>
              /\ pc' = "cycleE"
              /\ outcome' = "running"
              /\ solver'.at = "start"
              /\ solver'.rgbs = Labelled(i)
         /\ Len(Labelled(i)) <= 2 =>
              /\ pc' = "returned"
              /\ outcome' = "None"
              /\ solver' = solver]_vars

\* a class with exactly 3 labelled samples has had its solver created
C2_Witness ==
    /\ pc = "cycleE"
    /\ drawn = <<>>
    /\ solver.at = "start"
    /\ Len(bgrs) = 3

\* C3: whenever the fit of a class completes, exactly 21 snapshots were
\* drawn from its solver, in the order E,M,...,E,M,E; the means and
\* covariances kept for the class are those of snapshot 20 (the 10th M-step),
\* the weights kept are the row sums of the responsibilities of snapshot 21
\* (the 11th E-step), and these responsibilities are the ones computed from
\* the kept means and covariances.  No solver is ever drawn from more than
\* 21 times.
C3_TenCyclesThenOneEStep ==
    /\ Len(drawn) <= 21
    /\ Alternates
    /\ pc = "store" =>
         /\ Len(drawn) = 21
         /\ gmm_centers = drawn[20].gmm_center
         /\ gmm_covs = drawn[20].gmm_cov
         /\ z = drawn[21].z
         /\ z = EStep(bgrs, n_gmm, gmm_centers, gmm_covs).z
    /\ (pc = "loop" /\ i > 0) =>
         /\ Len(drawn) = 21
         /\ Len(label_means) = i /\ Len(label_covars) = i /\ Len(mixs) = i
         /\ label_means[i] = drawn[20].gmm_center
         /\ label_covars[i] = drawn[20].gmm_cov
         /\ mixs[i] = RowSums(drawn[21].z)

\* the fit of the second class has completed
C3_Witness == pc = "loop" /\ i = 2 /\ Len(drawn) = 21

\* some component of the suspended solver has no responsibility mass
SomeMassZero == \E g \in 1..Len(solver.z) : NSum(solver.z[g]) = 0

C6_WarmStartParameters ==
    (model # None /\ pc \in {"cycleE", "cycleM", "finalE", "store", "raised"}) =>
        /\ n_gmm = Len(model[1][i + 1])
        /\ solver.n_gmm = Len(model[1][i + 1])
        /\ solver.at = "start" =>
             /\ solver.gmm_center = model[1][i + 1]
             /\ solver.gmm_cov = model[2][i + 1]
        /\ Len(drawn) = 1 =>
             drawn[1] = EStep(Labelled(i), Len(model[1][i + 1]),
                              model[1][i + 1], model[2][i + 1])

\* the second class of a 9-component Model has had its first snapshot drawn
C6_Witness ==
    /\ model # None
    /\ Len(model[1][1]) = 9
    /\ i = 1
    /\ Len(drawn) = 1

\* C7 as claimed: the snapshots alternate E, M, E, ...; every E-step snapshot
\* is computed from the parameters of the M-step snapshot before it (the
\* initial parameters for the first); and a draw that does not yield a
\* snapshot fails with Overfit or Numerical Error, nothing else (stated for
\* arguments of agreeing shapes).
C7_AlternatesAndFailsOnlyByOverfitOrNumerical ==
    ShapeValid =>
        /\ Alternates
        /\ (Len(drawn) % 2 = 1 /\ Len(label_means) = i) =>
             LET k == Len(drawn)
                 p == ParamsBefore(k)
             IN  drawn[k] = EStep(bgrs, n_gmm, p.gmm_center, p.gmm_cov)
        /\ pc = "raised" => outcome \in {"Overfit", "Numerical Error"}

\* every initial covariance handed to the solvers is positive definite
IniCovsPosDef ==
    \A c \in 1..Len(cov_ini) : \A g \in 1..Len(cov_ini[c]) :
        PosDef(cov_ini[c][g])

\* the covariance computed for component g in the M-step that produced the
\* latest snapshot (gmm.py:167)
ComputedCov(g) ==
    LET zrow == drawn[Len(drawn) - 1].z[g]
        z_sum == NSum(zrow)
    IN  WCov(bgrs, zrow, z_sum, WMean(bgrs, zrow, z_sum))

\* C8: given positive-definite initial covariances, the covariance of every
\* component in every M-step snapshot, and in every class of the Model under
\* construction or returned, is positive definite.
C8_CovariancesStayPosDef ==
    IniCovsPosDef =>
        /\ (Len(drawn) > 0 /\ drawn[Len(drawn)].phase = "M") =>
             \A g \in 1..n_gmm : PosDef(drawn[Len(drawn)].gmm_cov[g])
        /\ \A c \in 1..Len(label_covars) : \A g \in 1..n_gmm :
              PosDef(label_covars[c][g])

\* an M-step snapshot was yielded although the covariance computed for a
\* component other than the last was not positive definite
C8_Witness ==
    /\ Len(drawn) > 0
    /\ Len(drawn) % 2 = 0
    /\ Len(label_means) = i
    /\ \E g \in 1..(n_gmm - 1) : ~PosDef(ComputedCov(g))

\* C9 as claimed: in every E-step snapshot every responsibility is
\* nonnegative and the responsibilities of every sample sum to 1 (within one
\* unit of resolution per component); the mixing weights kept for a class
\* are nonnegative and sum to the number of its samples (same tolerance per
\* sample).
C9_ResponsibilitiesNormalised ==
    /\ (Len(drawn) % 2 = 1 /\ Len(label_means) = i) =>
         LET r == drawn[Len(drawn)].z
         IN  /\ \A g \in 1..n_gmm : \A s \in 1..Len(bgrs) : r[g][s] >= 0
             /\ \A s \in 1..Len(bgrs) :
                   LET t == Sum(LAMBDA g : r[g][s], n_gmm)
                   IN  t >= ZS - n_gmm /\ t <= ZS + n_gmm
    /\ \A c \in 1..Len(mixs) :
          /\ \A g \in 1..n_gmm : mixs[c][g] >= 0
          /\ LET t == Sum(LAMBDA g : mixs[c][g], n_gmm)
                 n == Len(Labelled(c - 1))
             IN  t >= n * (ZS - n_gmm) /\ t <= n * (ZS + n_gmm)

\* C10: in every M-step that completes, for every component g, the yielded
\* mean is 0.8 * (mean of g before the M-step) + 0.2 * (the
\* responsibility-weighted mean of the samples), and the yielded covariance
\* is 0.8 * (covariance of g before the M-step) + 0.2 * (the
\* responsibility-weighted covariance about that weighted mean), with the
\* responsibilities of the E-step snapshot of the same cycle: no update of
\* another component enters.
C10_DampedUpdate ==
    (Len(drawn) > 0 /\ Len(drawn) % 2 = 0 /\ Len(label_means) = i) =>
        LET k == Len(drawn)
            old == ParamsBefore(k)
        IN  \A g \in 1..n_gmm :
              LET zrow == drawn[k - 1].z[g]
                  z_sum == NSum(zrow)
                  mean == WMean(bgrs, zrow, z_sum)
                  cov == WCov(bgrs, zrow, z_sum, mean)
                  n == Len(mean)
              IN  /\ drawn[k].gmm_center[g] =
                       [d \in 1..n |->
                          Round(8 * old.gmm_center[g][d] + 2 * mean[d], 10)]
                  /\ drawn[k].gmm_cov[g] =
                       [a \in 1..n |-> [b \in 1..n |->
                          Round(8 * old.gmm_cov[g][a][b] + 2 * cov[a][b], 10)]]

\* the tenth M-step of a class with several components has moved a mean
C10_Witness ==
    /\ Len(drawn) = 20
    /\ Len(label_means) = i
    /\ n_gmm >= 2
    /\ drawn[20].gmm_center # drawn[18].gmm_center
====
